---- MODULE Spec2Model ----
(***************************************************************************)
(* A model of src/lib.rs: build() drives generate_analysis, DocData::new   *)
(* (root lookup and build_data, the symbol extraction), DocData::to_json   *)
(* (the JSON:API document and its serde_json rendering) and the write of   *)
(* target/doc/data.json.  Rust Strings are sequences of one-character      *)
(* strings, so that the slice qualname[..len - 2] is a real slice; the     *)
(* rendered JSON is a sequence of tokens, the punctuation and member names *)
(* being one token each.                                                   *)
(***************************************************************************)
EXTENDS Integers, Sequences, FiniteSets, TLC

\* ---------------------------------------------------------------- bounds

\* Longest list of direct children of a root that the analysis data holds.
MaxChildren == 2

\* Longest list of registered roots (def_roots) that the analysis data holds.
MaxRoots == 2

\* ---------------------------------------------------------------- strings

example == <<"e", "x", "a", "m", "p", "l", "e">>

demo == <<"d", "e", "m", "o">>

\* The path separator that ends a root's qualified name ("example::").
Sep == <<":", ":">>

\* The crate name DocData::new looks for among the registered roots.
RootName == example

\* analysis::raw::DefKind, as matched in build_data.
DefKinds ==
    {"Mod", "Static", "Const", "Enum", "Struct", "Union", "Trait", "Function",
     "Macro", "Tuple", "Method", "Type", "Local", "Field"}

SeqsUpTo(S, n) == UNION {[1..k -> S] : k \in 0..n}

\* ------------------------------------------------------- the analysis data

\* A child definition as for_each_child_def hands it to the closure.
Def(kind, name, docs) ==
    [kind |-> kind, name |-> <<name>>, qualname |-> example \o Sep \o <<name>>,
     docs |-> docs]

\* Children used in every combination: two modules sharing a qualified name
\* with different docs, a second module, a function named like a module.
CoreDefs ==
    {Def("Mod", "a", <<"m">>), Def("Mod", "a", <<>>), Def("Mod", "b", <<"m">>),
     Def("Function", "a", <<"f">>)}

\* Child lists: every list over CoreDefs, and for every kind of definition a
\* list holding it next to a module.
ChildLists ==
    SeqsUpTo(CoreDefs, MaxChildren)
        \cup {<<Def(k, "c", <<"k">>)>> : k \in DefKinds}
        \cup {<<Def("Mod", "a", <<"m">>), Def(k, "b", <<>>)>> : k \in DefKinds}

RootDocs == {<<>>, <<"R">>}

\* Qualified names of a root definition: two of the form "<name>::" and one
\* too short to hold a separator.
RootQualNames == {example \o Sep, demo \o Sep, <<":">>}

Root(name, qualname, docs, children) ==
    [name |-> name, qualname |-> qualname, docs |-> docs, children |-> children]

\* A root as the compiler records it: qualified name "<crate name>::".
PlainRoot(name) == Root(name, name \o Sep, <<"R">>, <<>>)

\* Root lists as the compiler records them.
PlainRootLists ==
    {[i \in 1..Len(names) |-> PlainRoot(names[i])] :
        names \in SeqsUpTo({example, demo}, MaxRoots)}

\* The analysis data of a project: the registered roots, in def_roots order;
\* the analysis::Id of a root is its position.
RootLists ==
    PlainRootLists
    \cup {<<Root(example, example \o Sep, <<"R">>, c)>> : c \in ChildLists}
    \cup {<<Root(example, q, <<"R">>, c)>> :
            q \in RootQualNames, c \in {<<>>, <<Def("Mod", "a", <<"m">>)>>}}

ArtifactSets == SUBSET {"json", "assets"}

\* What the caller runs: the crate the manifest path names, its analysis data
\* and the artifacts asked for.
Inputs ==
    {[crate |-> example, roots |-> r, artifacts |-> {"json", "assets"}] :
        r \in RootLists}
    \cup {[crate |-> n, roots |-> r, artifacts |-> a] :
            n \in {example, demo}, r \in PlainRootLists, a \in ArtifactSets}
    \cup {[crate |-> example, artifacts |-> a,
           roots |-> <<Root(example, example \o Sep, <<"R">>, <<Def("Mod", "a", <<"m">>)>>)>>] :
            a \in ArtifactSets}

\* ------------------------------------------------------------ DocData::new

\* host.def_roots(): the (id, name) pairs of the registered roots.
DefRoots(roots) == [i \in 1..Len(roots) |-> <<i, roots[i].name>>]

\* FindRoot, were a lookup that finds nothing to settle on the first root.
FindRootOrFirst(roots) ==
    LET hits == {i \in 1..Len(roots) : roots[i][2] = RootName}
    IN  IF hits # {} THEN roots[CHOOSE i \in hits : \A j \in hits : i <= j][1]
        ELSE IF roots = <<>> THEN 0 ELSE roots[1][1]

\* roots.iter().find(|&&(_, ref name)| name == "example"): the id of the first
\* root of that name, 0 standing for None.
FindRoot(roots) ==
    LET hits == {i \in 1..Len(roots) : roots[i][2] = RootName}
    IN  IF hits = {} THEN 0 ELSE roots[CHOOSE i \in hits : \A j \in hits : i <= j][1]

\* root_def.qualname[..(name_len - 2)] in DocData::new; the caller has checked
\* that the slice does not panic.
CrateName(qualname) == SubSeq(qualname, 1, Len(qualname) - 2)

\* Whether the slice [..(len - 2)] panics: len - 2 underflows.
SlicePanics(qualname) == Len(qualname) < 2

\* IsModule, were the Function arm to record the definition too.
IsModuleOrFunction(kind) == kind \in {"Mod", "Function"}

\* The arm of the match on def.kind that records the definition.
IsModule(kind) == kind = "Mod"

\* Item::Module { name, docs } of a definition.
Module(def) == [name |-> def.name, docs |-> def.docs]

EmptyMap == [k \in {} |-> Module(Def("Mod", "a", <<>>))]

\* Insert, were it entry(key).or_insert(value): the first value is kept.
InsertIfAbsent(map, key, value) ==
    [k \in DOMAIN map \cup {key} |-> IF k \in DOMAIN map THEN map[k] ELSE value]

\* HashMap::insert: a later value replaces an earlier one under the same key.
Insert(map, key, value) ==
    [k \in DOMAIN map \cup {key} |-> IF k = key THEN value ELSE map[k]]

\* The loop of build_data over the child definitions, from the map and the
\* module list so far.
RECURSIVE Walk(_, _, _)
Walk(defs, map, modules) ==
    IF defs = <<>> THEN [data |-> map, modules |-> modules]
    ELSE LET def == Head(defs)
         IN  IF IsModule(def.kind)
             THEN Walk(Tail(defs), Insert(map, def.qualname, Module(def)),
                       Append(modules, def.qualname))
             ELSE Walk(Tail(defs), map, modules)

\* build_data: the symbol table and krate.modules of a child list.
BuildData(defs) == Walk(defs, EmptyMap, <<>>)

\* ------------------------------------------------------- DocData::to_json

\* Option<T>: None carries the empty sequence.
Some(v) == [some |-> TRUE, val |-> v]

None == [some |-> FALSE, val |-> <<>>]

\* The orders in which a HashMap may yield the keys of the set S: every key
\* once, in an order fixed by the map's own randomly seeded hasher.
IterOrders(S) ==
    {o \in [1..Cardinality(S) -> S] : \A i, j \in 1..Cardinality(S) : o[i] = o[j] => i = j}

\* The orders in which the attribute map of a module resource may yield its
\* two keys.
KeyOrders == IterOrders({"name", "docs"})

\* ResourceIdentifier, were its type spelt otherwise than the resource's.
ResourceIdentifierPlural(id) == [type |-> "modules", id |-> id]

\* ResourceIdentifier { _type: "module", id } pushed to the relationship.
ResourceIdentifier(id) == [type |-> "module", id |-> id]

\* The Resource pushed to document.included for one entry of the symbol table,
\* its attribute map yielding its keys in the order keys.
ModuleResource(id, item, keys) ==
    [type |-> "module", id |-> id,
     attributes |-> [i \in 1..Len(keys) |-> [key |-> keys[i], value |-> item[keys[i]]]],
     relationships |-> None]

\* The loop over self.data.iter(), the map yielding its keys in the order
\* order: the relationship's identifiers and the included resources.
Identifiers(order) == [i \in 1..Len(order) |-> ResourceIdentifier(order[i])]

Resources(data, order, keys) ==
    [i \in 1..Len(order) |-> ModuleResource(order[i], data[order[i]], keys[order[i]])]

\* Included, were the list made on the first push only.
IncludedWhenPushed(resources) == IF resources = <<>> THEN None ELSE Some(resources)

\* document.included: Some(Vec::new()) before the loop, pushed to in the loop.
Included(resources) == Some(resources)

\* PrimaryDocs, were to_json to use the copy taken at extraction.
CachedDocs(root_def, krate) == krate.docs

\* The docs attribute of the primary resource: those of the root definition
\* fetched anew in to_json, not those kept in krate at extraction.
PrimaryDocs(root_def, krate) == root_def.docs

\* PrimaryAttributes, were the loop to insert into the outer map instead of a
\* map of its own: the name and docs of the entry yielded last stay in it.
PrimaryAttributesUnshadowed(docs, data, order) ==
    IF order = <<>> THEN <<[key |-> "docs", value |-> docs]>>
    ELSE <<[key |-> "docs", value |-> data[order[Len(order)]].docs],
           [key |-> "name", value |-> data[order[Len(order)]].name]>>

\* The attribute map of the primary resource: the outer map, which the loop's
\* own map shadows and leaves alone.
PrimaryAttributes(docs, data, order) == <<[key |-> "docs", value |-> docs]>>

\* CrateId, were the second copy of the slice to cut one character only.
CrateIdOneShort(qualname) == SubSeq(qualname, 1, Len(qualname) - 1)

\* root_def.qualname[..(len - 2)] in to_json, written a second time there.
CrateId(qualname) == SubSeq(qualname, 1, Len(qualname) - 2)

\* The primary resource, of type "crate", with its "modules" relationship.
CrateResource(root_def, krate, data, order) ==
    [type |-> "crate", id |-> CrateId(root_def.qualname),
     attributes |-> PrimaryAttributes(PrimaryDocs(root_def, krate), data, order),
     relationships |-> Some(<<[key |-> "modules", data |-> Identifiers(order)]>>)]

NoResource == [type |-> "", id |-> <<>>, attributes |-> <<>>, relationships |-> None]

\* JsonApiDocument::default(): no data, no included.
DefaultDocument == [data |-> [some |-> FALSE, val |-> NoResource], included |-> None]

\* The document to_json assembles from the root definition and the symbol table.
Document(root_def, krate, data, order, keys) ==
    [data |-> Some(CrateResource(root_def, krate, data, order)),
     included |-> Included(Resources(data, order, keys))]

\* ------------------------------------------------- serde_json::to_string

\* A JSON string; the strings of the model hold nothing that is escaped.
Str(s) == <<"\"">> \o s \o <<"\"">>

Member(name) == <<"\"" \o name \o "\":">>

RECURSIVE Joined(_)
\* The parts, with a comma between each two.
Joined(parts) ==
    IF parts = <<>> THEN <<>>
    ELSE IF Len(parts) = 1 THEN parts[1]
    ELSE parts[1] \o <<",">> \o Joined(Tail(parts))

RenderAttributes(attrs) ==
    <<"{">> \o Joined([i \in 1..Len(attrs) |->
                         Member(attrs[i].key) \o Str(attrs[i].value)]) \o <<"}">>

RenderIdentifier(ident) ==
    <<"{">> \o Member("type") \o Str(<<ident.type>>) \o <<",">>
            \o Member("id") \o Str(ident.id) \o <<"}">>

RenderRelationship(rel) ==
    Member(rel.key) \o <<"{">> \o Member("data") \o <<"[">>
        \o Joined([i \in 1..Len(rel.data) |-> RenderIdentifier(rel.data[i])])
        \o <<"]", "}">>

RenderResource(r) ==
    <<"{">> \o Member("type") \o Str(<<r.type>>) \o <<",">>
            \o Member("id") \o Str(r.id) \o <<",">>
            \o Member("attributes") \o RenderAttributes(r.attributes)
            \o (IF r.relationships.some
                THEN <<",">> \o Member("relationships") \o <<"{">>
                       \o Joined([i \in 1..Len(r.relationships.val) |->
                                    RenderRelationship(r.relationships.val[i])])
                       \o <<"}">>
                ELSE <<>>)
            \o <<"}">>

\* The document as JSON text; a member that is None is left out.
Render(d) ==
    <<"{">>
        \o Joined((IF d.data.some
                   THEN <<Member("data") \o RenderResource(d.data.val)>> ELSE <<>>)
                  \o (IF d.included.some
                      THEN <<Member("included") \o <<"[">>
                               \o Joined([i \in 1..Len(d.included.val) |->
                                            RenderResource(d.included.val[i])])
                               \o <<"]">>>>
                      ELSE <<>>))
        \o <<"}">>

\* ------------------------------------------------------------------ state

VARIABLES
    crate,      \* the crate the caller wants documented (the manifest path's)
    artifacts,  \* the artifacts argument of build
    analysis,   \* the project's analysis data, which config.host answers from
    pc,         \* the step of build that runs next
    err,        \* the error build returned
    krate,      \* DocData.krate
    data,       \* DocData.data, the symbol table
    document,   \* the JsonApiDocument to_json assembled
    json,       \* the String to_json returned
    file,       \* what this run did to target/doc/data.json
    reloaded,   \* the analysis data changed since this run's extraction
    stable,     \* the analysis data never changed
    previous    \* the outcome of the run before this one

vars ==
    <<crate, artifacts, analysis, pc, err, krate, data, document, json, file,
      reloaded, stable, previous>>

NoErr == [kind |-> "none", at |-> "", name |-> <<>>]

\* CrateErr::new(crate_name), returned by DocData::new.
CrateErr(crate_name) == [kind |-> "CrateNotFound", at |-> "find", name |-> crate_name]

\* Any other error a step returns through `?`.
OtherErr(at) == [kind |-> "Error", at |-> at, name |-> <<>>]

NoCrate == [id |-> 0, name |-> <<>>, docs |-> <<>>, modules |-> <<>>]

Untouched == [state |-> "untouched", bytes |-> <<>>]

NoRun == [ran |-> FALSE, file |-> Untouched, document |-> DefaultDocument]

Init ==
    /\ \E in \in Inputs :
        /\ crate = in.crate
        /\ artifacts = in.artifacts
        /\ analysis = in.roots
    /\ pc = "generate_analysis"
    /\ err = NoErr
    /\ krate = NoCrate
    /\ data = EmptyMap
    /\ document = DefaultDocument
    /\ json = <<>>
    /\ file = Untouched
    /\ reloaded = FALSE
    /\ stable = TRUE
    /\ previous = NoRun

\* build returns Err(e): nothing of the run is touched any more.
Fail(e) ==
    /\ pc' = "failed"
    /\ err' = e

\* generate_analysis: cargo build, then host.reload of what it saved.
GenerateAnalysis ==
    /\ pc = "generate_analysis"
    /\ \/ pc' = "new" /\ UNCHANGED err
       \/ \E at \in {"cargo", "reload"} : Fail(OtherErr(at))
    /\ UNCHANGED <<crate, artifacts, analysis, krate, data, document, json, file,
                   reloaded, stable, previous>>

\* DocData::new: the root lookup, the root definition, the crate summary and
\* build_data.
DocDataNew ==
    /\ pc = "new"
    /\ LET root_id == FindRoot(DefRoots(analysis))
       IN  \/ Fail(OtherErr("def_roots")) /\ UNCHANGED <<krate, data>>
           \/ /\ root_id = 0
              /\ Fail(CrateErr(RootName))
              /\ UNCHANGED <<krate, data>>
           \/ /\ root_id # 0
              /\ Fail(OtherErr("get_def"))
              /\ UNCHANGED <<krate, data>>
           \/ /\ root_id # 0
              /\ SlicePanics(analysis[root_id].qualname)
              /\ pc' = "panicked"
              /\ UNCHANGED <<err, krate, data>>
           \/ /\ root_id # 0
              /\ ~SlicePanics(analysis[root_id].qualname)
              /\ Fail(OtherErr("for_each_child_def"))
              /\ UNCHANGED <<krate, data>>
           \/ /\ root_id # 0
              /\ ~SlicePanics(analysis[root_id].qualname)
              /\ LET root_def == analysis[root_id]
                     built == BuildData(root_def.children)
                 IN  /\ krate' = [id |-> root_id,
                                  name |-> CrateName(root_def.qualname),
                                  docs |-> root_def.docs,
                                  modules |-> built.modules]
                     /\ data' = built.data
              /\ pc' = "create_dir"
              /\ UNCHANGED err
    /\ UNCHANGED <<crate, artifacts, analysis, document, json, file, reloaded,
                   stable, previous>>

\* CreateDir, were data.json created along with its directory, before to_json.
CreateDirAndFile ==
    /\ pc = "create_dir"
    /\ \/ /\ pc' = "to_json"
          /\ file' = [state |-> "created", bytes |-> <<>>]
          /\ UNCHANGED err
       \/ Fail(OtherErr("create_dir_all")) /\ UNCHANGED file
    /\ UNCHANGED <<crate, artifacts, analysis, krate, data, document, json,
                   reloaded, stable, previous>>

\* fs::create_dir_all(&output_path).
CreateDir ==
    /\ pc = "create_dir"
    /\ \/ pc' = "to_json" /\ UNCHANGED err
       \/ Fail(OtherErr("create_dir_all"))
    /\ UNCHANGED <<crate, artifacts, analysis, krate, data, document, json, file,
                   reloaded, stable, previous>>

\* data.to_json(config), when "json" is among the artifacts: the root
\* definition fetched anew, the document, its rendering.
ToJson ==
    /\ pc = "to_json"
    /\ "json" \in artifacts
    /\ LET root_def == analysis[krate.id]
       IN  \/ /\ \E at \in {"flush", "get_def"} : Fail(OtherErr(at))
              /\ UNCHANGED <<document, json>>
           \/ /\ SlicePanics(root_def.qualname)
              /\ pc' = "panicked"
              /\ UNCHANGED <<err, document, json>>
           \/ /\ ~SlicePanics(root_def.qualname)
              /\ Fail(OtherErr("to_string"))
              /\ UNCHANGED <<document, json>>
           \/ /\ ~SlicePanics(root_def.qualname)
              /\ \E order \in IterOrders(DOMAIN data) :
                 \E keys \in [DOMAIN data -> KeyOrders] :
                    /\ document' = Document(root_def, krate, data, order, keys)
                    /\ json' = Render(document')
              /\ pc' = "create"
              /\ UNCHANGED err
    /\ UNCHANGED <<crate, artifacts, analysis, krate, data, file, reloaded, stable,
                   previous>>

\* build without "json" among the artifacts goes on to the assets.
SkipJson ==
    /\ pc = "to_json"
    /\ "json" \notin artifacts
    /\ pc' = "assets"
    /\ UNCHANGED <<crate, artifacts, analysis, err, krate, data, document, json,
                   file, reloaded, stable, previous>>

\* File::create(json_path): data.json exists and is empty.
FileCreate ==
    /\ pc = "create"
    /\ \/ /\ file' = [state |-> "created", bytes |-> <<>>]
          /\ pc' = "write"
          /\ UNCHANGED err
       \/ Fail(OtherErr("File::create")) /\ UNCHANGED file
    /\ UNCHANGED <<crate, artifacts, analysis, krate, data, document, json,
                   reloaded, stable, previous>>

\* file.write_all(json.as_bytes()): all of it, or an error after part of it.
WriteAll ==
    /\ pc = "write"
    /\ \/ /\ file' = [state |-> "complete", bytes |-> json]
          /\ pc' = "assets"
          /\ UNCHANGED err
       \/ /\ file' = [state |-> "partial", bytes |-> SubSeq(json, 1, Len(json) \div 2)]
          /\ Fail(OtherErr("write_all"))
    /\ UNCHANGED <<crate, artifacts, analysis, krate, data, document, json,
                   reloaded, stable, previous>>

\* The copy of the static assets, when "assets" is among the artifacts.
CopyAssets ==
    /\ pc = "assets"
    /\ \/ /\ "assets" \in artifacts
          /\ Fail(OtherErr("assets"))
       \/ pc' = "done" /\ UNCHANGED err
    /\ UNCHANGED <<crate, artifacts, analysis, krate, data, document, json, file,
                   reloaded, stable, previous>>

Ended == pc \in {"done", "failed", "panicked"}

\* The caller runs build a second time, on the same project.
Restart ==
    /\ Ended
    /\ ~previous.ran
    /\ previous' = [ran |-> TRUE, file |-> file, document |-> document]
    /\ pc' = "generate_analysis"
    /\ err' = NoErr
    /\ krate' = NoCrate
    /\ data' = EmptyMap
    /\ document' = DefaultDocument
    /\ json' = <<>>
    /\ file' = Untouched
    /\ reloaded' = FALSE
    /\ UNCHANGED <<crate, artifacts, analysis, stable>>

\* The root definition as another writer may leave it: other docs, or another
\* qualified name.
Rewritten(root) ==
    {[root EXCEPT !.docs = d] : d \in RootDocs \ {root.docs}}
    \cup {[root EXCEPT !.qualname = q] : q \in RootQualNames \ {root.qualname}}

\* The analysis data is reloaded, once, between DocData::new and to_json.
SourceChange ==
    /\ pc \in {"create_dir", "to_json"}
    /\ stable
    /\ \E r \in Rewritten(analysis[krate.id]) :
          analysis' = [analysis EXCEPT ![krate.id] = r]
    /\ reloaded' = TRUE
    /\ stable' = FALSE
    /\ UNCHANGED <<crate, artifacts, pc, err, krate, data, document, json, file,
                   previous>>

Next ==
    \/ GenerateAnalysis
    \/ DocDataNew
    \/ CreateDir
    \/ ToJson
    \/ SkipJson
    \/ FileCreate
    \/ WriteAll
    \/ CopyAssets
    \/ Restart
    \/ SourceChange

Spec == Init /\ [][Next]_vars

\* ----------------------------------------------------------------- claims

\* The root DocData::new settled on, and its children, in this run.
WalkedRoot == analysis[krate.id]

Extracted == krate.id # 0

\* to_json assembled a document in this run.
Built == document.data.some

Primary == document.data.val

IncludedList == document.included.val

Range(seq) == {seq[i] : i \in 1..Len(seq)}

\* The data of the relationships of a resource that are named "modules".
ModulesData(resource) ==
    {rel.data : rel \in {r \in Range(resource.relationships.val) : r.key = "modules"}}

TypeId(r) == [type |-> r.type, id |-> r.id]

\* The positions of the Module children in a child list.
ModulePositions(defs) == {i \in 1..Len(defs) : defs[i].kind = "Mod"}

RootNames == {analysis[i].name : i \in 1..Len(analysis)}

\* C1: in every document the builder assembles, for every symbol table (the
\* empty one too), the primary resource has one "modules" relationship, and the
\* set of its resource identifiers {type, id} is exactly the set of the
\* (type, id) pairs of the included resources.
C1_RelationshipMatchesIncluded ==
    Built =>
        /\ Primary.relationships.some
        /\ Cardinality(ModulesData(Primary)) = 1
        /\ \A ids \in ModulesData(Primary) :
              Range(ids) = {TypeId(r) : r \in Range(IncludedList)}

\* A document with two included resources was assembled.
C1_Witness == Built /\ Len(IncludedList) = 2

\* The run got as far as looking the root up among the registered roots.
LookedUp ==
    /\ pc \notin {"generate_analysis", "new"}
    /\ ~(pc = "failed" /\ err.at \in {"cargo", "reload", "def_roots"})

\* C2: the root is resolved by exact match on the crate name the caller
\* provides: the root DocData::new settles on is registered under that name,
\* and the lookup ends with CrateNotFound(that name) exactly when no
\* registered root has it.
C2_RootResolvedByProvidedName ==
    /\ Extracted => analysis[krate.id].name = crate
    /\ err.kind = "CrateNotFound" => err.name = crate /\ crate \notin RootNames
    /\ (LookedUp /\ crate \notin RootNames) => err.kind = "CrateNotFound"

FailingStages ==
    {"cargo", "reload", "def_roots", "find", "get_def", "for_each_child_def",
     "to_string"}

PipelineStep ==
    \/ GenerateAnalysis
    \/ DocDataNew
    \/ CreateDir
    \/ ToJson
    \/ SkipJson
    \/ FileCreate
    \/ WriteAll
    \/ CopyAssets

\* C4: a failure at any of those stages ends the run at once: the error is
\* returned, no step of the pipeline runs after it (none is tried again), and
\* data.json is not touched; a run that ends well with "json" asked for has
\* written the whole rendering of a document whose relationship and included
\* resources agree.
C4_FailureAbortsWithoutPartialOutput ==
    /\ err # NoErr => pc = "failed"
    /\ pc = "failed" => err # NoErr /\ ~ENABLED PipelineStep
    /\ (pc = "failed" /\ err.at \in FailingStages) => file = Untouched
    /\ (pc = "done" /\ "json" \in artifacts) =>
          /\ file.state = "complete"
          /\ Built
          /\ file.bytes = Render(document)
          /\ C1_RelationshipMatchesIncluded
    /\ (pc = "done" /\ "json" \notin artifacts) => file = Untouched

\* A run failed in to_json, after the extraction and the output directory.
C4_Witness ==
    /\ pc = "failed"
    /\ err.at \in {"get_def", "to_string"}
    /\ Extracted
    /\ data # EmptyMap

\* C5: only the Module children of the root leave a trace: the symbol table has
\* exactly their qualified names as keys, krate.modules lists exactly their
\* qualified names in order, and the included resources and the "modules"
\* identifiers are exactly theirs, each resource carrying the name and docs of
\* a Module child; a child of any other kind adds nothing.
C5_OnlyModulesDocumented ==
    LET defs == WalkedRoot.children
        mods == ModulePositions(defs)
    IN  /\ Extracted =>
              /\ DOMAIN data = {defs[i].qualname : i \in mods}
              /\ Len(krate.modules) = Cardinality(mods)
              /\ Range(krate.modules) = {defs[i].qualname : i \in mods}
              /\ \A q \in DOMAIN data :
                    \E i \in mods : data[q] = [name |-> defs[i].name, docs |-> defs[i].docs]
        /\ Built =>
              /\ {TypeId(r) : r \in Range(IncludedList)}
                    = {[type |-> "module", id |-> defs[i].qualname] : i \in mods}
              /\ \A ids \in ModulesData(Primary) :
                    Range(ids) = {[type |-> "module", id |-> defs[i].qualname] : i \in mods}
              /\ \A r \in Range(IncludedList) :
                    \E i \in mods :
                       /\ r.id = defs[i].qualname
                       /\ Range(r.attributes)
                             = {[key |-> "name", value |-> defs[i].name],
                                [key |-> "docs", value |-> defs[i].docs]}

\* A document was assembled for a root with a Module child and a child of
\* another kind.
C5_Witness ==
    /\ Built
    /\ \E i, j \in 1..Len(WalkedRoot.children) :
          /\ WalkedRoot.children[i].kind = "Mod"
          /\ WalkedRoot.children[j].kind = "Function"

\* Whether a qualified name has the form "<name>::".
EndsWithSep(q) == Len(q) >= 2 /\ SubSeq(q, Len(q) - 1, Len(q)) = Sep

\* C6: for a root whose qualified name is "<name>::", krate.name is <name>,
\* the id of the primary resource computed in to_json is <name> too, and the
\* two agree as long as the root definition is the same.
C6_CrateNameAndIdAgree ==
    /\ (Extracted /\ ~reloaded /\ EndsWithSep(WalkedRoot.qualname)) =>
          krate.name \o Sep = WalkedRoot.qualname
    /\ (Built /\ EndsWithSep(WalkedRoot.qualname)) =>
          /\ Primary.type = "crate"
          /\ Primary.id \o Sep = WalkedRoot.qualname
    /\ (Built /\ ~reloaded) => Primary.id = krate.name

\* A document was assembled for a root named otherwise than it is registered.
C6_Witness ==
    /\ Built
    /\ ~reloaded
    /\ WalkedRoot.qualname = demo \o Sep
    /\ Primary.id = demo

\* Both runs wrote data.json whole, and the analysis data never changed.
BuiltTwice ==
    /\ previous.ran
    /\ previous.file.state = "complete"
    /\ file.state = "complete"
    /\ stable

\* A resource, the order of its attribute members and of its relationships'
\* identifiers put aside.
Unordered(r) ==
    [type |-> r.type, id |-> r.id, attributes |-> Range(r.attributes),
     relationships |-> {[key |-> rel.key, data |-> Range(rel.data)] :
                          rel \in Range(r.relationships.val)}]

\* C7 as stated: two runs on the same unchanged analysis data write
\* byte-identical documents, for any number of module children.
C7_ByteIdentical == BuiltTwice => file.bytes = previous.file.bytes

\* C7 as amended: two runs on the same unchanged analysis data write documents
\* that are equal up to the order of the included resources, of the
\* relationship's identifiers and of the attribute members of each included
\* resource: the same primary resource, the same set of included resources of
\* the same number, the same set of identifiers; the two are byte-identical
\* when the root has no module children.
C7_SameUpToOrder ==
    BuiltTwice =>
        /\ Built /\ previous.document.data.some
        /\ file.bytes = Render(document)
        /\ previous.file.bytes = Render(previous.document)
        /\ Unordered(Primary) = Unordered(previous.document.data.val)
        /\ Primary.attributes = previous.document.data.val.attributes
        /\ Len(IncludedList) = Len(previous.document.included.val)
        /\ {Unordered(r) : r \in Range(IncludedList)}
              = {Unordered(r) : r \in Range(previous.document.included.val)}
        /\ ModulePositions(WalkedRoot.children) = {} =>
              file.bytes = previous.file.bytes

\* Two runs on unchanged analysis data wrote documents of two modules each.
C7_Witness == BuiltTwice /\ Len(IncludedList) = 2

\* C8: the docs attribute of the primary resource is the documentation of the
\* root definition as the analysis data holds it when to_json runs, not the
\* copy krate.docs took at extraction.
C8_DocsReadAtRenderTime ==
    Built =>
        Primary.attributes = <<[key |-> "docs", value |-> WalkedRoot.docs]>>

\* The root's docs changed between the extraction and to_json, and a document
\* was assembled.
C8_Witness ==
    /\ Built
    /\ reloaded
    /\ krate.docs # WalkedRoot.docs

\* C9: when the root has no Module children, the document has an included list
\* that is present and empty, the primary data is one resource object of type
\* "crate", and it has a "modules" relationship whose data is the empty list;
\* the rendering shows "data" as one object and "included" as [].
C9_EmptyCrate ==
    (Built /\ ModulePositions(WalkedRoot.children) = {}) =>
        /\ document.included = Some(<<>>)
        /\ Primary.type = "crate"
        /\ Primary.relationships.some
        /\ ModulesData(Primary) = {<<>>}
        /\ SubSeq(json, 1, 3) = <<"{", "\"data\":", "{">>
        /\ SubSeq(json, Len(json) - 3, Len(json)) = <<"\"included\":", "[", "]", "}">>

\* A document was assembled for a root whose only child is no module.
C9_Witness ==
    /\ Built
    /\ Len(WalkedRoot.children) = 1
    /\ ModulePositions(WalkedRoot.children) = {}

\* The last Module child of the list with the qualified name q.
LastModule(defs, q) ==
    LET at == {i \in ModulePositions(defs) : defs[i].qualname = q}
    IN  defs[CHOOSE i \in at : \A j \in at : j <= i]

\* C10: for any child list, also one in which two Module children share a
\* qualified name, the symbol table holds one entry per qualified name, with the
\* name and docs of the last such child; krate.modules gets one element per
\* Module child; and the (type, id) pairs of the included resources are
\* pairwise distinct.
C10_OneEntryPerQualifiedName ==
    LET defs == WalkedRoot.children
    IN  /\ Extracted =>
              /\ \A q \in DOMAIN data :
                    data[q] = [name |-> LastModule(defs, q).name,
                               docs |-> LastModule(defs, q).docs]
              /\ krate.modules
                    = [i \in 1..Len(SelectSeq(defs, LAMBDA d : d.kind = "Mod")) |->
                         SelectSeq(defs, LAMBDA d : d.kind = "Mod")[i].qualname]
        /\ Built =>
              /\ \A i, j \in 1..Len(IncludedList) :
                    TypeId(IncludedList[i]) = TypeId(IncludedList[j]) => i = j
              /\ Len(IncludedList) = Cardinality(DOMAIN data)
              /\ \A r \in Range(IncludedList) :
                    Range(r.attributes)
                       = {[key |-> "name", value |-> LastModule(defs, r.id).name],
                          [key |-> "docs", value |-> LastModule(defs, r.id).docs]}

\* A document was assembled for a root with two Module children of one
\* qualified name and different docs.
C10_Witness ==
    /\ Built
    /\ Len(krate.modules) = 2
    /\ Cardinality(DOMAIN data) = 1
    /\ WalkedRoot.children[1].docs # WalkedRoot.children[2].docs

====
